---- MODULE Spec2Model ----
(***************************************************************************)
(* Model of server.js, the OpenAI -> NVIDIA NIM proxy.                     *)
(*                                                                         *)
(* Two parts of POST /v1/chat/completions are modelled:                    *)
(*   - the streaming transcoder (the 'data' / 'end' / 'error' handlers of  *)
(*     the upstream response), specification SpecStream, and SpecSpan for  *)
(*     an upstream that sends well-formed delta frames only;               *)
(*   - the request handler (model resolution, probe, message               *)
(*     transformation, nimRequest, primary call, catch), specification     *)
(*     SpecProxy.                                                          *)
(*                                                                         *)
(* Text is a sequence of tokens.  A token stands for a run of characters   *)
(* (or, upstream, of bytes) that is kept together; the two bytes of one    *)
(* two-byte UTF-8 character are two tokens, so a chunk boundary may fall   *)
(* between them.                                                           *)
(***************************************************************************)
EXTENDS Integers, Sequences, FiniteSets, TLC

\* Number of lines the upstream sends on one stream.
MaxLines == 3
\* Number of chunks the 'data' handler receives on one stream.
MaxChunks == 3

(***************************************************************************)
(* JavaScript values of the two delta fields.                              *)
(***************************************************************************)
Absent == [t |-> "absent", s |-> <<>>]
Null == [t |-> "null", s |-> <<>>]
Str(s) == [t |-> "str", s |-> s]

\* JavaScript truthiness of a field value: a non-empty string.
Truthy(v) == v.t = "str" /\ v.s # <<>>

(***************************************************************************)
(* Tokens.                                                                 *)
(***************************************************************************)
NL == "\n"
DataPrefix == "data: "
DONE == "[DONE]"
ThinkOpen == "<think>\n"
ThinkClose == "</think>\n\n"
\* The two bytes of a two-byte UTF-8 character, the character they decode
\* to, and the replacement character.
ByteHi == "0xC3"
ByteLo == "0xA9"
CharE == "U+00E9"
CharRepl == "U+FFFD"

\* const SHOW_REASONING = true; // Set to false to hide reasoning
\* The value the build was given: TRUE in the source as it stands.
VARIABLE SHOW_REASONING

(***************************************************************************)
(* chunk.toString(): UTF-8 decoding of one chunk on its own.  A lead byte  *)
(* followed by its continuation byte is one character; a lead byte or a    *)
(* continuation byte on its own decodes to the replacement character.      *)
(***************************************************************************)
RECURSIVE chunkToString(_)
chunkToString(bytes) ==
  IF bytes = <<>> THEN <<>>
  ELSE IF bytes[1] = ByteHi /\ Len(bytes) >= 2 /\ bytes[2] = ByteLo
       THEN <<CharE>> \o chunkToString(SubSeq(bytes, 3, Len(bytes)))
  ELSE IF bytes[1] \in {ByteHi, ByteLo}
       THEN <<CharRepl>> \o chunkToString(Tail(bytes))
  ELSE <<bytes[1]>> \o chunkToString(Tail(bytes))

\* res.write(string): UTF-8 encoding of the written text.
RECURSIVE writeBytes(_)
writeBytes(text) ==
  IF text = <<>> THEN <<>>
  ELSE IF text[1] = CharE THEN <<ByteHi, ByteLo>> \o writeBytes(Tail(text))
  ELSE IF text[1] = CharRepl THEN <<"0xEF", "0xBF", "0xBD">> \o writeBytes(Tail(text))
  ELSE <<text[1]>> \o writeBytes(Tail(text))

\* buffer.split('\n'): the pieces between newlines, the last one included.
RECURSIVE split(_)
split(s) ==
  IF \A i \in 1..Len(s) : s[i] # NL THEN <<s>>
  ELSE LET i == CHOOSE k \in 1..Len(s) :
                  s[k] = NL /\ \A j \in 1..(k - 1) : s[j] # NL
       IN <<SubSeq(s, 1, i - 1)>> \o split(SubSeq(s, i + 1, Len(s)))

startsWithData(line) == Len(line) >= 1 /\ line[1] = DataPrefix
includesDONE(line) == \E i \in 1..Len(line) : line[i] = DONE

(***************************************************************************)
(* JSON.parse(line.slice(6)).  The payloads the model knows:               *)
(*   null                                                                  *)
(*   {}                       an object without choices            "{}"    *)
(*   {"choices":[{"delta":{ FIELDS }}]}                      "{d" ... "}d" *)
(* FIELDS is empty, "reasoning_content":V, "content":V or both separated   *)
(* by a comma; V is null or a quoted string.  Anything else is a syntax    *)
(* error.                                                                  *)
(***************************************************************************)
ParseFail == [ok |-> FALSE, isNull |-> FALSE, hasDelta |-> FALSE, r |-> Absent, c |-> Absent]
ParsedObj(d, r, c) == [ok |-> TRUE, isNull |-> FALSE, hasDelta |-> d, r |-> r, c |-> c]

\* The value starting at b[i]: [ok, v, next].
parseValue(b, i) ==
  IF i > Len(b) THEN [ok |-> FALSE, v |-> Absent, next |-> i]
  ELSE IF b[i] = "null" THEN [ok |-> TRUE, v |-> Null, next |-> i + 1]
  ELSE IF b[i] = "q" /\ \E j \in (i + 1)..Len(b) : b[j] = "q"
       THEN LET j == CHOOSE k \in (i + 1)..Len(b) :
                       b[k] = "q" /\ \A m \in (i + 1)..(k - 1) : b[m] # "q"
            IN [ok |-> TRUE, v |-> Str(SubSeq(b, i + 1, j - 1)), next |-> j + 1]
  ELSE [ok |-> FALSE, v |-> Absent, next |-> i]

parseFields(b) ==
  IF b = <<>> THEN ParsedObj(TRUE, Absent, Absent)
  ELSE IF b[1] = "r:"
       THEN LET pr == parseValue(b, 2) IN
            IF ~pr.ok THEN ParseFail
            ELSE IF pr.next > Len(b) THEN ParsedObj(TRUE, pr.v, Absent)
            ELSE IF pr.next + 1 <= Len(b) /\ b[pr.next] = "," /\ b[pr.next + 1] = "c:"
                 THEN LET pc == parseValue(b, pr.next + 2) IN
                      IF pc.ok /\ pc.next > Len(b)
                      THEN ParsedObj(TRUE, pr.v, pc.v) ELSE ParseFail
            ELSE ParseFail
  ELSE IF b[1] = "c:"
       THEN LET pc == parseValue(b, 2) IN
            IF pc.ok /\ pc.next > Len(b)
            THEN ParsedObj(TRUE, Absent, pc.v) ELSE ParseFail
  ELSE ParseFail

JSONparse(s) ==
  IF s = <<"null">> THEN [ParsedObj(FALSE, Absent, Absent) EXCEPT !.isNull = TRUE]
  ELSE IF s = <<"{}">> THEN ParsedObj(FALSE, Absent, Absent)
  ELSE IF Len(s) >= 2 /\ s[1] = "{d" /\ s[Len(s)] = "}d"
       THEN parseFields(SubSeq(s, 2, Len(s) - 1))
  ELSE ParseFail

(***************************************************************************)
(* The SHOW_REASONING merge of one delta: the new reasoning_content and    *)
(* content fields and the new value of reasoningStarted.                   *)
(***************************************************************************)
\* A merge that leaves the span open after the closing marker.
mergeDeltaNeverCloses(reasoning, content, started) ==
  LET afterR == IF Truthy(reasoning) /\ ~started
                THEN [text |-> <<ThinkOpen>> \o reasoning.s, started |-> TRUE]
                ELSE IF Truthy(reasoning)
                THEN [text |-> reasoning.s, started |-> started]
                ELSE [text |-> <<>>, started |-> started]
      afterC == IF Truthy(content) /\ afterR.started
                THEN [text |-> afterR.text \o <<ThinkClose>> \o content.s,
                      started |-> afterR.started]
                ELSE IF Truthy(content)
                THEN [text |-> afterR.text \o content.s, started |-> afterR.started]
                ELSE afterR
  IN IF afterC.text # <<>>
     THEN [r |-> Absent, c |-> Str(afterC.text), started |-> afterC.started]
     ELSE [r |-> reasoning, c |-> content, started |-> afterC.started]

\* A merge that writes the opening marker before every reasoning fragment.
mergeDeltaAlwaysOpens(reasoning, content, started) ==
  LET afterR == IF Truthy(reasoning)
                THEN [text |-> <<ThinkOpen>> \o reasoning.s, started |-> TRUE]
                ELSE [text |-> <<>>, started |-> started]
      afterC == IF Truthy(content) /\ afterR.started
                THEN [text |-> afterR.text \o <<ThinkClose>> \o content.s,
                      started |-> FALSE]
                ELSE IF Truthy(content)
                THEN [text |-> afterR.text \o content.s, started |-> afterR.started]
                ELSE afterR
  IN IF afterC.text # <<>>
     THEN [r |-> Absent, c |-> Str(afterC.text), started |-> afterC.started]
     ELSE [r |-> reasoning, c |-> content, started |-> afterC.started]

mergeDelta(reasoning, content, started) ==
  IF SHOW_REASONING
  THEN LET afterR == IF Truthy(reasoning) /\ ~started
                     THEN [text |-> <<ThinkOpen>> \o reasoning.s, started |-> TRUE]
                     ELSE IF Truthy(reasoning)
                     THEN [text |-> reasoning.s, started |-> started]
                     ELSE [text |-> <<>>, started |-> started]
            afterC == IF Truthy(content) /\ afterR.started
                      THEN [text |-> afterR.text \o <<ThinkClose>> \o content.s,
                            started |-> FALSE]
                      ELSE IF Truthy(content)
                      THEN [text |-> afterR.text \o content.s, started |-> afterR.started]
                      ELSE afterR
       IN IF afterC.text # <<>>
          THEN [r |-> Absent, c |-> Str(afterC.text), started |-> afterC.started]
          ELSE [r |-> reasoning, c |-> content, started |-> afterC.started]
  ELSE [r |-> Absent,
        c |-> IF Truthy(content) THEN content ELSE Str(<<>>),
        started |-> started]

(***************************************************************************)
(* One res.write call of a line.  kind "raw": text is the line written     *)
(* back with its newline; "frame": data is the object that is stringified  *)
(* after 'data: '.  src, before and after record what the write was made   *)
(* from: the object as parsed and reasoningStarted before and after the    *)
(* line.                                                                   *)
(***************************************************************************)
NoData == ParsedObj(FALSE, Absent, Absent)
RawWrite(line, started) ==
  [kind |-> "raw", text |-> line \o <<NL>>, data |-> NoData,
   src |-> NoData, before |-> started, after |-> started]
FrameWrite(data, parsed, before, after) ==
  [kind |-> "frame", text |-> <<>>, data |-> data,
   src |-> parsed, before |-> before, after |-> after]

\* The body of lines.forEach for one line: the writes it makes and the new
\* value of reasoningStarted.
processLine(line, started) ==
  IF ~startsWithData(line) THEN [writes |-> <<>>, started |-> started]
  ELSE IF includesDONE(line)
       THEN [writes |-> <<RawWrite(line, started)>>, started |-> started]
  ELSE LET data == JSONparse(Tail(line)) IN
       IF ~data.ok \/ data.isNull
       THEN [writes |-> <<RawWrite(line, started)>>, started |-> started]
       ELSE IF data.hasDelta
            THEN LET m == mergeDelta(data.r, data.c, started) IN
                 [writes |-> <<FrameWrite([data EXCEPT !.r = m.r, !.c = m.c],
                                          data, started, m.started)>>,
                  started |-> m.started]
            ELSE [writes |-> <<FrameWrite(data, data, started, started)>>,
                  started |-> started]

RECURSIVE processLines(_, _)
processLines(lines, started) ==
  IF lines = <<>> THEN [writes |-> <<>>, started |-> started]
  ELSE LET first == processLine(Head(lines), started)
           rest == processLines(Tail(lines), first.started)
       IN [writes |-> first.writes \o rest.writes, started |-> rest.started]

\* The 'data' handler on one chunk of bytes: the ':keepalive' write it starts
\* with (counted), the writes of its lines, the new buffer and span flag.
onData(chunk, buf, started) ==
  LET pieces == split(buf \o chunkToString(chunk))
      lines == SubSeq(pieces, 1, Len(pieces) - 1)
      done == processLines(lines, started)
  IN [keepalives |-> 1,
      writes |-> done.writes,
      buffer |-> pieces[Len(pieces)],
      started |-> done.started]

(***************************************************************************)
(* The lines an upstream may send (without their newline).                 *)
(***************************************************************************)
valueBytes(v) == IF v.t = "null" THEN <<"null">> ELSE <<"q">> \o v.s \o <<"q">>
FrameLine(r, c) ==
  <<DataPrefix, "{d">>
  \o (IF r.t = "absent" THEN <<>> ELSE <<"r:">> \o valueBytes(r))
  \o (IF r.t # "absent" /\ c.t # "absent" THEN <<",">> ELSE <<>>)
  \o (IF c.t = "absent" THEN <<>> ELSE <<"c:">> \o valueBytes(c))
  \o <<"}d">>

UpstreamLines ==
  { <<DataPrefix, DONE>>,
    <<>>,
    <<DataPrefix, "{}">>,
    <<DataPrefix, "oops", ByteHi, ByteLo>>,
    FrameLine(Str(<<"A">>), Absent),
    FrameLine(Str(<<"B">>), Absent),
    FrameLine(Absent, Str(<<"C">>)),
    FrameLine(Str(<<"A">>), Str(<<"C">>)),
    FrameLine(Null, Absent),
    FrameLine(Str(<<>>), Null),
    FrameLine(Str(<<DONE>>), Absent) }

\* The well-formed delta frames among them, and the sentinel.
DeltaLines ==
  { <<DataPrefix, DONE>>,
    FrameLine(Str(<<"A">>), Absent),
    FrameLine(Str(<<"B">>), Absent),
    FrameLine(Absent, Str(<<"C">>)),
    FrameLine(Str(<<"A">>), Str(<<"C">>)),
    FrameLine(Null, Absent) }

(***************************************************************************)
(* The request handler.  A model name is a sequence of tokens, cut so that *)
(* every substring the code looks for ('gpt-4', 'claude-opus', '405b',     *)
(* 'claude', 'gemini', '70b', 'kimi-k2.5-instruct',                        *)
(* 'kimi-k2-instruct-0905') is a run of whole tokens; the first token of   *)
(* an upstream model is its 'vendor/' part.                                *)
(***************************************************************************)
MODEL_MAPPING ==
  (<<"gpt-3.5-turbo">> :> <<"nvidia/", "llama-3.1-nemotron-ultra-253b-v1">>)
  @@ (<<"gpt-4">> :> <<"qwen/", "qwen3-coder-480b-a35b-instruct">>)
  @@ (<<"gpt-4", "-turbo">> :> <<"moonshotai/", "kimi-k2.5-instruct">>)
  @@ (<<"gpt-4", "-turbo", "-preview">> :> <<"moonshotai/", "kimi-k2.5-instruct">>)
  @@ (<<"gpt-4", "o">> :> <<"deepseek-ai/", "deepseek-v3.1">>)
  @@ (<<"gpt-4", "o", "-mini">> :> <<"meta/", "llama-3.1-", "70b", "-instruct">>)
  @@ (<<"claude", "-3", "-opus">> :> <<"openai/", "gpt-oss-120b">>)
  @@ (<<"claude", "-3", "-sonnet">> :> <<"openai/", "gpt-oss-20b">>)
  @@ (<<"claude", "-3", "-5", "-sonnet">> :> <<"openai/", "gpt-oss-120b">>)
  @@ (<<"gemini", "-pro">> :> <<"qwen/", "qwen3-next-80b-a3b-thinking">>)
  @@ (<<"kimi-k2.5">> :> <<"moonshotai/", "kimi-k2.5-instruct">>)
  @@ (<<"kimi">> :> <<"moonshotai/", "kimi-k2.5-instruct">>)

ARRAY_CONTENT_MODELS ==
  { <<"moonshotai/", "kimi-k2.5-instruct">>, <<"moonshotai/", "kimi-k2-instruct-0905">> }

THINKING_MODELS ==
  { <<"qwen/", "qwen3-next-80b-a3b-thinking">>, <<"qwen/", "qwq-32b-preview">> }

ENABLE_THINKING_MODE == FALSE

Model405b == <<"meta/", "llama-3.1-", "405b", "-instruct">>
Model70b == <<"meta/", "llama-3.1-", "70b", "-instruct">>
Model8b == <<"meta/", "llama-3.1-", "8b", "-instruct">>

\* Names every JavaScript object inherits from Object.prototype: indexing
\* MODEL_MAPPING with one of them yields a function or an object.
ObjectPrototypeKeys ==
  { <<"constructor">>, <<"toString">>, <<"valueOf">>, <<"hasOwnProperty">>, <<"__proto__">> }

\* JavaScript values of nimModel.
Undefined == [t |-> "undefined", s |-> <<>>]
NotAString == [t |-> "object", s |-> <<>>]

\* A lookup that knows one-word aliases only.
mappingLookupOneWord(model) ==
  IF model \in DOMAIN MODEL_MAPPING /\ Len(model) = 1 THEN Str(MODEL_MAPPING[model])
  ELSE IF model \in ObjectPrototypeKeys THEN NotAString
  ELSE Undefined

\* MODEL_MAPPING[model]
mappingLookup(model) ==
  IF model \in DOMAIN MODEL_MAPPING THEN Str(MODEL_MAPPING[model])
  ELSE IF model \in ObjectPrototypeKeys THEN NotAString
  ELSE Undefined

\* if (nimModel), if (!nimModel): undefined and '' are falsy.
truthyModel(v) == v.t = "object" \/ (v.t = "str" /\ v.s # <<>>)

\* String.prototype.includes
includes(hay, needle) ==
  \E i \in 1..(Len(hay) + 1) :
    i + Len(needle) - 1 <= Len(hay) /\ SubSeq(hay, i, i + Len(needle) - 1) = needle

toLowerCase(name) ==
  [i \in 1..Len(name) |->
     IF name[i] = "GPT-4" THEN "gpt-4"
     ELSE IF name[i] = "Claude" THEN "claude"
     ELSE name[i]]

\* The size-based selection.
fallbackModel(model) ==
  LET modelLower == toLowerCase(model) IN
  IF includes(modelLower, <<"gpt-4">>) \/ includes(modelLower, <<"claude", "-opus">>)
     \/ includes(modelLower, <<"405b">>)
  THEN Model405b
  ELSE IF includes(modelLower, <<"claude">>) \/ includes(modelLower, <<"gemini">>)
          \/ includes(modelLower, <<"70b">>)
  THEN Model70b
  ELSE Model8b

\* ARRAY_CONTENT_MODELS.some(m => nimModel.includes(m.split('/')[1]))
requiresArrayFormat(nimModel) ==
  \E m \in ARRAY_CONTENT_MODELS : includes(nimModel, Tail(m))

(***************************************************************************)
(* Messages.  A content is a string (t = "string", s its text) or an array *)
(* of parts (t = "array").                                                 *)
(***************************************************************************)
StringContent(s) == [t |-> "string", s |-> s, parts |-> <<>>]
ArrayContent(parts) == [t |-> "array", s |-> <<>>, parts |-> parts]
TextPart(s) == [type |-> "text", text |-> s]
ImagePart == [type |-> "image_url", text |-> <<>>]

RECURSIVE join(_)
\* texts.join('\n')
join(texts) ==
  IF texts = <<>> THEN <<>>
  ELSE IF Len(texts) = 1 THEN texts[1]
  ELSE texts[1] \o <<NL>> \o join(Tail(texts))

transformMessage(msg, arrayFormat) ==
  IF arrayFormat /\ msg.content.t = "string"
  THEN [msg EXCEPT !.content = ArrayContent(<<TextPart(msg.content.s)>>)]
  ELSE IF ~arrayFormat /\ msg.content.t = "array"
  THEN LET textParts == SelectSeq(msg.content.parts, LAMBDA item : item.type = "text")
       IN [msg EXCEPT !.content =
             StringContent(join([i \in 1..Len(textParts) |-> textParts[i].text]))]
  ELSE msg

transformedMessages(messages, arrayFormat) ==
  [i \in 1..Len(messages) |-> transformMessage(messages[i], arrayFormat)]

(***************************************************************************)
(* Numbers and booleans of the request body, which may be left out.        *)
(* Temperatures are counted in tenths.                                     *)
(***************************************************************************)
NoNumber == [t |-> "undefined", n |-> 0]
Num(n) == [t |-> "number", n |-> n]
NoBool == [t |-> "undefined", b |-> FALSE]
Bool(b) == [t |-> "boolean", b |-> b]
NoMessages == [t |-> "undefined", items |-> <<>>]
Messages(items) == [t |-> "array", items |-> items]

DefaultTemperature == 6
DefaultMaxTokens == 9024

\* a || b on an optional number: 0 is falsy.
orNumber(v, default) == IF v.t = "number" /\ v.n # 0 THEN v.n ELSE default
orFalse(v) == v.t = "boolean" /\ v.b

\* const nimRequest = { ... }
nimRequest(nimModel, messages, temperature, max_tokens, stream) ==
  [model |-> nimModel,
   messages |-> messages,
   temperature |-> orNumber(temperature, DefaultTemperature),
   max_tokens |-> orNumber(max_tokens, DefaultMaxTokens),
   stream |-> orFalse(stream),
   thinking |-> ENABLE_THINKING_MODE /\ nimModel \in THINKING_MODELS]

(***************************************************************************)
(* Requests.                                                               *)
(***************************************************************************)
\* Number of requests the process receives.
MaxRequests == 2

\* The connections on which requests arrive; requests on different
\* connections are handled concurrently.
Conns == {"c1", "c2"}

Body(model, messages, temperature, max_tokens, stream) ==
  [model |-> model, messages |-> messages, temperature |-> temperature,
   max_tokens |-> max_tokens, stream |-> stream]

UserMessage(content) == [role |-> "user", content |-> content]
PlainMessages == Messages(<<UserMessage(StringContent(<<"hello">>))>>)
\* Messages with structured content: one text part; text, image, text.
PartsMessages ==
  Messages(<<UserMessage(ArrayContent(<<TextPart(<<"hello">>)>>)),
             [role |-> "assistant",
              content |-> ArrayContent(<<TextPart(<<"a">>), ImagePart, TextPart(<<"b">>)>>)]>>)

\* The model names callers send.
ModelNames ==
  { <<"gpt-4">>,
    <<"gpt-4", "-turbo">>,
    <<"constructor">>,
    <<>>,
    <<"GPT-4", "-custom">>,
    <<"Claude", "-x">>,
    <<"meta/", "llama-3.1-", "8b", "-instruct">>,
    <<"acme/", "kimi-k2.5-instruct">> }

\* The request bodies callers send.
Bodies ==
  { Body(m, PlainMessages, NoNumber, NoNumber, NoBool) : m \in ModelNames }
  \cup { Body(<<"gpt-4">>, PlainMessages, t, NoNumber, NoBool) : t \in {Num(0), Num(10)} }
  \cup { Body(<<"gpt-4">>, PlainMessages, NoNumber, Num(100), Bool(b)) : b \in BOOLEAN }
  \cup { Body(<<"gpt-4">>, m, NoNumber, NoNumber, NoBool) :
           m \in { NoMessages, Messages(<<>>), PartsMessages } }
  \cup { Body(<<"gpt-4", "-turbo">>, PartsMessages, NoNumber, NoNumber, NoBool) }

NoRequest == nimRequest(<<>>, <<>>, NoNumber, NoNumber, NoBool)
NoResponse == [status |-> 0, type |-> "", message |-> "", code |-> 0, choices |-> <<>>]

\* The primary call has not settled.
NoOutcome ==
  [kind |-> "none", hasResponse |-> FALSE, status |-> 0, detail |-> "", message |-> "",
   data |-> "none", choices |-> <<>>]

\* A connection with no request on it.
IdleRequest ==
  [pc |-> "idle",
   body |-> Body(<<>>, NoMessages, NoNumber, NoNumber, NoBool),
   nimModel |-> Undefined,
   cachedAtStart |-> FALSE,    \* the model was in validatedModels when the request arrived
   probes |-> 0,               \* probe requests sent upstream
   probe2xx |-> FALSE,         \* the probe was answered with a 2xx status
   fallback |-> FALSE,         \* the size-based selection ran
   primarySent |-> FALSE,      \* the primary upstream request was sent
   upstream |-> NoRequest,     \* the nimRequest sent
   outcome |-> NoOutcome,      \* what the upstream did with the primary call
   response |-> NoResponse]    \* the response given to the caller

\* What axios.post of the probe can end with.
ProbeOutcomes ==
  { [kind |-> "status", status |-> 200],
    [kind |-> "status", status |-> 404],
    [kind |-> "status", status |-> 503],
    [kind |-> "timeout", status |-> 0],
    [kind |-> "network", status |-> 0] }

\* validateStatus: (status) => status < 500
probeResolves(o) == o.kind = "status" /\ o.status < 500
\* A test that takes every answered probe for a validation.
probeValidatedAnyStatus(o) == probeResolves(o)

\* testResponse.status >= 200 && testResponse.status < 300
probeValidated(o) == probeResolves(o) /\ o.status >= 200 /\ o.status < 300

\* A choice of a non-streamed upstream response; message.content and
\* message.reasoning_content may be absent, null or a string.
Choice(index, content, reasoning, finish_reason) ==
  [index |-> index, hasMessage |-> TRUE, role |-> "assistant", content |-> content,
   reasoning_content |-> reasoning, finish_reason |-> finish_reason]
\* A choice without a message.
BareChoice(index, finish_reason) ==
  [index |-> index, hasMessage |-> FALSE, role |-> "", content |-> Absent,
   reasoning_content |-> Absent, finish_reason |-> finish_reason]

\* response.data.choices of the upstream's non-streamed answers.
UpstreamChoices ==
  { <<Choice(0, Str(<<"answer">>), Str(<<"steps">>), "stop")>>,
    <<Choice(0, Str(<<"answer">>), Absent, "stop"),
      Choice(1, Null, Str(<<"steps">>), "length"),
      Choice(2, Absent, Str(<<>>), "stop")>>,
    <<BareChoice(0, "stop")>> }

\* What the upstream can do with the primary call: answer 2xx, answer with an
\* error status (its body with or without a 'detail'), or not answer at all.
\* message is the message axios gives its error; a connection error can
\* have an empty one.  data is error.response.data: parsed JSON ("json"),
\* or, when the call was made with responseType 'stream', the response
\* stream itself, an object that may be circular ("stream", "circular").
PrimaryOutcomes ==
  { [kind |-> "ok", hasResponse |-> TRUE, status |-> 200, detail |-> "", message |-> "",
     data |-> "json", choices |-> cs] : cs \in UpstreamChoices }
  \cup
  { [kind |-> "error", hasResponse |-> TRUE, status |-> 401, detail |-> "Unauthorized",
     message |-> "Request failed with status code 401", data |-> "json", choices |-> <<>>],
    [kind |-> "error", hasResponse |-> TRUE, status |-> 503, detail |-> "",
     message |-> "Request failed with status code 503", data |-> "json", choices |-> <<>>],
    [kind |-> "error", hasResponse |-> FALSE, status |-> 0, detail |-> "",
     message |-> "timeout of 120000ms exceeded", data |-> "none", choices |-> <<>>],
    [kind |-> "error", hasResponse |-> FALSE, status |-> 0, detail |-> "",
     message |-> "", data |-> "none", choices |-> <<>>] }

\* The error axios.post rejects with for upstream outcome o: with
\* responseType 'stream' the body is not parsed, so error.response.data is
\* the stream and has no 'detail'.
axiosError(o, stream, circular) ==
  IF o.hasResponse /\ stream
  THEN [o EXCEPT !.detail = "", !.data = IF circular THEN "circular" ELSE "stream"]
  ELSE o

\* An error thrown by the handler's own code.
TypeError(message) ==
  [kind |-> "error", hasResponse |-> FALSE, status |-> 0, detail |-> "", message |-> message,
   data |-> "none", choices |-> <<>>]

\* The catch block: the error envelope sent to the caller.
errorResponse(error) ==
  [status |-> IF error.hasResponse THEN error.status ELSE 500,
   type |-> "invalid_request_error",
   message |-> IF error.hasResponse /\ error.detail # "" THEN error.detail
               ELSE IF error.message # "" THEN error.message
               ELSE "Internal server error",
   code |-> IF error.hasResponse THEN error.status ELSE 500,
   choices |-> <<>>]

\* let fullContent = ...: the content of one output choice.
fullContent(choice) ==
  LET content == IF choice.hasMessage /\ Truthy(choice.content) THEN choice.content.s
                 ELSE <<>>
  IN IF SHOW_REASONING /\ choice.hasMessage /\ Truthy(choice.reasoning_content)
     THEN <<ThinkOpen>> \o choice.reasoning_content.s \o <<NL, ThinkClose>> \o content
     ELSE content

\* response.data.choices.map(choice => ...)
openaiChoices(choices) ==
  [i \in 1..Len(choices) |->
     [index |-> choices[i].index,
      role |-> choices[i].role,
      content |-> fullContent(choices[i]),
      finish_reason |-> choices[i].finish_reason]]

\* catch (error) { ... }: the logging, then the envelope.  JSON.stringify of
\* a circular error.response.data throws before any response is sent, and
\* the handler ends rejected.
catchBlock(rq, error) ==
  IF error.data = "circular"
  THEN [rq EXCEPT !.pc = "rejected"]
  ELSE [rq EXCEPT !.pc = "done", !.response = errorResponse(error)]

\* The else branch of 'if (stream)': res.json(openaiResponse), or the
\* TypeError of choice.message.role on a choice without a message.
sendJson(rq, choices) ==
  IF \E i \in 1..Len(choices) : ~choices[i].hasMessage
  THEN catchBlock(rq, TypeError("Cannot read properties of undefined (reading 'role')"))
  ELSE [rq EXCEPT !.pc = "done",
                  !.response = [status |-> 200, type |-> "", message |-> "", code |-> 0,
                                choices |-> openaiChoices(choices)]]

\* if (!nimModel) { size-based selection }
selectModel(rq, nimModel) ==
  IF ~truthyModel(nimModel)
  THEN [rq EXCEPT !.nimModel = Str(fallbackModel(rq.body.model)), !.fallback = TRUE]
  ELSE [rq EXCEPT !.nimModel = nimModel]

\* From requiresArrayFormat to the await of the primary axios.post.
sendPrimary(rq) ==
  IF rq.nimModel.t # "str"
  THEN catchBlock(rq, TypeError("nimModel.includes is not a function"))
  ELSE IF rq.body.messages.t # "array"
  THEN catchBlock(rq, TypeError("Cannot read properties of undefined (reading 'map')"))
  ELSE [rq EXCEPT !.pc = "primary",
          !.primarySent = TRUE,
          !.upstream = nimRequest(rq.nimModel.s,
                                  transformedMessages(rq.body.messages.items,
                                                      requiresArrayFormat(rq.nimModel.s)),
                                  rq.body.temperature, rq.body.max_tokens, rq.body.stream)]

\* The handler from its start to its first await.
startRequest(body, cache) ==
  LET rq == [IdleRequest EXCEPT !.body = body, !.cachedAtStart = body.model \in cache]
      mapped == mappingLookup(body.model)
  IN IF truthyModel(mapped) THEN sendPrimary([rq EXCEPT !.nimModel = mapped])
     ELSE IF body.model \in cache THEN sendPrimary(selectModel(rq, Str(body.model)))
     ELSE [rq EXCEPT !.pc = "probing", !.probes = 1]

(***************************************************************************)
(* State of one streamed response.                                         *)
(***************************************************************************)
VARIABLES
  upstreamState,     \* "open", or how the upstream's stream finished: "ended", "failed"
  wire,              \* bytes the upstream has sent and the handler has not yet received
  received,          \* all bytes the 'data' handler has received, in order
  buffer,            \* let buffer
  reasoningStarted,  \* let reasoningStarted
  out,               \* the res.write calls made, in order, keepalives left out
  keepalives,        \* the number of ':keepalive' writes made
  resEnded,          \* res.end() was called
  callerGone,        \* the caller has closed its connection
  NIM_API_KEY,       \* whether process.env.NIM_API_KEY is set
  validatedModels,   \* const validatedModels = new Set()
  req,               \* the requests being handled, by connection
  streams,           \* the streamed responses in progress, by connection
  arrived            \* the number of requests received so far

streamVars == <<upstreamState, wire, received, buffer, reasoningStarted, out, keepalives,
                resEnded, callerGone>>
proxyVars == <<NIM_API_KEY, SHOW_REASONING, streams, validatedModels, req, arrived>>
vars == <<upstreamState, wire, received, buffer, reasoningStarted, out, keepalives,
          resEnded, callerGone, NIM_API_KEY, SHOW_REASONING, streams, validatedModels, req,
          arrived>>

countNL(s) == Cardinality({i \in 1..Len(s) : s[i] = NL})

\* The closure of the stream branch of one request: its buffer and
\* reasoningStarted, with the chunks its 'data' handler received and the
\* res.write calls it made.
NewStream ==
  [open |-> TRUE, chunks |-> <<>>, buffer |-> <<>>, reasoningStarted |-> FALSE, out |-> <<>>]
\* No streamed response on the connection.
NoStream == [NewStream EXCEPT !.open = FALSE]

\* A streamed response right after 'let buffer', 'let reasoningStarted'.
StreamStart ==
  /\ upstreamState = "open"
  /\ wire = <<>>
  /\ received = <<>>
  /\ buffer = <<>>
  /\ reasoningStarted = FALSE
  /\ out = <<>>
  /\ keepalives = 0
  /\ resEnded = FALSE
  /\ callerGone = FALSE

InitStream ==
  /\ StreamStart
  /\ NIM_API_KEY = TRUE
  /\ SHOW_REASONING = TRUE
  /\ validatedModels = {}
  /\ req = [r \in Conns |-> IdleRequest]
  /\ streams = [c \in Conns |-> NoStream]
  /\ arrived = 0

\* The same for a build with SHOW_REASONING set to false.
InitHidden ==
  /\ StreamStart
  /\ NIM_API_KEY = TRUE
  /\ SHOW_REASONING = FALSE
  /\ validatedModels = {}
  /\ req = [r \in Conns |-> IdleRequest]
  /\ streams = [c \in Conns |-> NoStream]
  /\ arrived = 0

\* The upstream sends one more line.
UpstreamSend(lines) ==
  /\ upstreamState = "open"
  /\ countNL(received \o wire) < MaxLines
  /\ keepalives < MaxChunks
  /\ \E line \in lines : wire' = wire \o line \o <<NL>>
  /\ UNCHANGED <<upstreamState, received, buffer, reasoningStarted, out, keepalives, resEnded,
                 callerGone>>
  /\ UNCHANGED proxyVars

\* The upstream finishes its response.
UpstreamEnd ==
  /\ upstreamState = "open"
  /\ upstreamState' = "ended"
  /\ UNCHANGED <<wire, received, buffer, reasoningStarted, out, keepalives, resEnded,
                 callerGone>>
  /\ UNCHANGED proxyVars

\* The connection to the upstream breaks.
UpstreamFail ==
  /\ upstreamState = "open"
  /\ upstreamState' = "failed"
  /\ UNCHANGED <<wire, received, buffer, reasoningStarted, out, keepalives, resEnded,
                 callerGone>>
  /\ UNCHANGED proxyVars

\* response.data 'data': the next k bytes arrive as one chunk (the last chunk
\* within the bound takes all bytes sent).  No 'data' is emitted after 'end'
\* or 'error'.
OnData ==
  /\ ~resEnded
  /\ keepalives < MaxChunks
  /\ \E k \in (IF keepalives = MaxChunks - 1 THEN {Len(wire)} \cap (1..Len(wire))
               ELSE 1..Len(wire)) :
       \E chunk \in {SubSeq(wire, 1, k)} :
         \E h \in {onData(chunk, buffer, reasoningStarted)} :
           /\ wire' = SubSeq(wire, k + 1, Len(wire))
           /\ received' = received \o chunk
           /\ buffer' = h.buffer
           /\ reasoningStarted' = h.started
           /\ out' = out \o h.writes
           /\ keepalives' = keepalives + h.keepalives
  /\ UNCHANGED <<upstreamState, resEnded, callerGone>>
  /\ UNCHANGED proxyVars

\* response.data 'end', emitted once everything sent was received: res.end().
OnEnd ==
  /\ ~resEnded
  /\ upstreamState = "ended"
  /\ wire = <<>>
  /\ resEnded' = TRUE
  /\ UNCHANGED <<upstreamState, wire, received, buffer, reasoningStarted, out, keepalives,
                 callerGone>>
  /\ UNCHANGED proxyVars

\* An 'error' handler that logs and leaves the response open.
OnErrorLogsOnly ==
  /\ ~resEnded
  /\ upstreamState = "failed"
  /\ UNCHANGED streamVars
  /\ UNCHANGED proxyVars

\* response.data 'error': console.error, res.end().
OnError ==
  /\ ~resEnded
  /\ upstreamState = "failed"
  /\ resEnded' = TRUE
  /\ UNCHANGED <<upstreamState, wire, received, buffer, reasoningStarted, out, keepalives,
                 callerGone>>
  /\ UNCHANGED proxyVars

\* The caller closes its connection while the response is being streamed.
\* The handler registers no 'close' listener on req or res: nothing runs.
CallerDisconnect ==
  /\ ~callerGone
  /\ ~resEnded
  /\ callerGone' = TRUE
  /\ UNCHANGED <<upstreamState, wire, received, buffer, reasoningStarted, out, keepalives,
                 resEnded>>
  /\ UNCHANGED proxyVars

NextStream ==
  UpstreamSend(UpstreamLines) \/ UpstreamEnd \/ UpstreamFail \/ OnData \/ OnEnd \/ OnError

SpecStream == InitStream /\ [][NextStream]_vars

\* The same stream when the upstream sends delta frames and the sentinel only.
NextSpan ==
  UpstreamSend(DeltaLines) \/ UpstreamEnd \/ UpstreamFail \/ OnData \/ OnEnd \/ OnError

SpecSpan == InitStream /\ [][NextSpan]_vars

\* ENABLED <<OnData>>_vars: bytes are waiting for the 'data' handler.
DataPending == ~resEnded /\ keepalives < MaxChunks /\ wire # <<>>

\* The stream of a build that hides reasoning.
SpecHidden == InitHidden /\ [][NextStream]_vars

\* The stream of an upstream that sends one kind of frame and the sentinel.
EndLines == { <<DataPrefix, DONE>>, FrameLine(Str(<<"A">>), Str(<<"C">>)) }

NextEnd ==
  UpstreamSend(EndLines) \/ UpstreamEnd \/ UpstreamFail \/ OnData \/ OnEnd \/ OnError

\* That stream with a caller that may go away.
NextCancel == NextEnd \/ CallerDisconnect

SpecCancel == InitStream /\ [][NextCancel]_vars

\* That stream with the event loop's scheduling: a chunk that has arrived is
\* delivered to the 'data' handler, and 'end' and 'error' are delivered once
\* the upstream's stream has finished.  The second conjunct is
\* WF_vars(OnData) with its ENABLED written out as DataPending.
SpecEndFair ==
  /\ InitStream /\ [][NextEnd]_vars
  /\ ([]<>(~DataPending) \/ []<><<OnData>>_vars)
  /\ WF_vars(OnEnd)
  /\ WF_vars(OnError)

(***************************************************************************)
(* Two connections with streamed responses in progress at the same time.   *)
(***************************************************************************)
\* Number of streamed responses begun.
MaxStreams == 3

\* The chunks that arrive: a reasoning line, and an answer line cut in two.
StreamChunks ==
  { FrameLine(Str(<<"A">>), Absent) \o <<NL>>,
    SubSeq(FrameLine(Absent, Str(<<"C">>)), 1, 3),
    SubSeq(FrameLine(Absent, Str(<<"C">>)), 4, 7) \o <<NL>> }

\* if (stream) { ... let buffer = ''; let reasoningStarted = false; ... }
StreamBegin(c) ==
  /\ ~streams[c].open
  /\ arrived < MaxStreams
  /\ streams' = [streams EXCEPT ![c] = NewStream]
  /\ arrived' = arrived + 1
  /\ UNCHANGED <<NIM_API_KEY, SHOW_REASONING, validatedModels, req>>
  /\ UNCHANGED streamVars

\* A 'data' handler that keeps reasoningStarted outside the request.
StreamDataSharedFlag(c) ==
  /\ streams[c].open
  /\ Len(streams[c].chunks) < MaxChunks
  /\ \E chunk \in StreamChunks :
       \E h \in {onData(chunk, streams[c].buffer, reasoningStarted)} :
         /\ streams' = [streams EXCEPT ![c] =
                          [@ EXCEPT !.chunks = Append(@, chunk),
                                    !.buffer = h.buffer,
                                    !.reasoningStarted = h.started,
                                    !.out = @ \o h.writes]]
         /\ reasoningStarted' = h.started
  /\ UNCHANGED <<NIM_API_KEY, SHOW_REASONING, validatedModels, req, arrived>>
  /\ UNCHANGED <<upstreamState, wire, received, buffer, out, keepalives, resEnded, callerGone>>

\* response.data 'data' of the request on connection c.
StreamData(c) ==
  /\ streams[c].open
  /\ Len(streams[c].chunks) < MaxChunks
  /\ \E chunk \in StreamChunks :
       \E h \in {onData(chunk, streams[c].buffer, streams[c].reasoningStarted)} :
         streams' = [streams EXCEPT ![c] =
                       [@ EXCEPT !.chunks = Append(@, chunk),
                                 !.buffer = h.buffer,
                                 !.reasoningStarted = h.started,
                                 !.out = @ \o h.writes]]
  /\ UNCHANGED <<NIM_API_KEY, SHOW_REASONING, validatedModels, req, arrived>>
  /\ UNCHANGED streamVars

\* response.data 'end' or 'error' of the request on connection c.
StreamEnd(c) ==
  /\ streams[c].open
  /\ streams' = [streams EXCEPT ![c].open = FALSE]
  /\ UNCHANGED <<NIM_API_KEY, SHOW_REASONING, validatedModels, req, arrived>>
  /\ UNCHANGED streamVars

NextTwoStreams == \E c \in Conns : StreamBegin(c) \/ StreamData(c) \/ StreamEnd(c)

SpecTwoStreams == InitStream /\ [][NextTwoStreams]_vars

(***************************************************************************)
(* The request handler as a state machine.                                 *)
(***************************************************************************)
InitProxy ==
  /\ StreamStart
  /\ NIM_API_KEY \in BOOLEAN
  /\ SHOW_REASONING = TRUE
  /\ validatedModels = {}
  /\ req = [r \in Conns |-> IdleRequest]
  /\ streams = [c \in Conns |-> NoStream]
  /\ arrived = 0

\* app.post('/v1/chat/completions'): a request arrives on a free connection
\* and runs to its first await.
Receive(r) ==
  /\ req[r].pc \in {"idle", "done"}
  /\ arrived < MaxRequests
  /\ \E body \in Bodies : req' = [req EXCEPT ![r] = startRequest(body, validatedModels)]
  /\ arrived' = arrived + 1
  /\ UNCHANGED <<NIM_API_KEY, SHOW_REASONING, streams, validatedModels>>
  /\ UNCHANGED streamVars

\* The probe's axios.post settles; the handler runs on to the primary call.
ProbeReturn(r) ==
  /\ req[r].pc = "probing"
  /\ \E o \in ProbeOutcomes :
       /\ validatedModels' = IF probeValidated(o)
                             THEN validatedModels \cup {req[r].body.model}
                             ELSE validatedModels
       /\ req' = [req EXCEPT ![r] =
                    sendPrimary(selectModel([req[r] EXCEPT !.probe2xx =
                                               o.kind = "status" /\ o.status \in 200..299],
                                            IF probeValidated(o) THEN Str(req[r].body.model)
                                            ELSE Undefined))]
  /\ UNCHANGED <<NIM_API_KEY, SHOW_REASONING, streams, arrived>>
  /\ UNCHANGED streamVars

\* The primary axios.post settles.
PrimaryReturn(r) ==
  /\ req[r].pc = "primary"
  /\ \E o \in PrimaryOutcomes, circular \in BOOLEAN :
       req' = [req EXCEPT ![r] =
                 IF o.kind = "ok" /\ req[r].upstream.stream
                 THEN [req[r] EXCEPT !.pc = "streaming",
                                     !.outcome = [o EXCEPT !.data = "stream", !.choices = <<>>],
                                     !.response = [NoResponse EXCEPT !.status = 200]]
                 ELSE IF o.kind = "ok"
                 THEN sendJson([req[r] EXCEPT !.outcome = o], o.choices)
                 ELSE catchBlock([req[r] EXCEPT !.outcome = o],
                                 axiosError(o, req[r].upstream.stream, circular))]
  /\ UNCHANGED <<NIM_API_KEY, SHOW_REASONING, streams, validatedModels, arrived>>
  /\ UNCHANGED streamVars

\* The upstream stream of a streamed request ends or fails: res.end().
StreamClosed(r) ==
  /\ req[r].pc = "streaming"
  /\ req' = [req EXCEPT ![r].pc = "done"]
  /\ UNCHANGED <<NIM_API_KEY, SHOW_REASONING, streams, validatedModels, arrived>>
  /\ UNCHANGED streamVars

NextProxy ==
  \E r \in Conns : Receive(r) \/ ProbeReturn(r) \/ PrimaryReturn(r) \/ StreamClosed(r)

SpecProxy == InitProxy /\ [][NextProxy]_vars

(***************************************************************************)
(* Properties of the streaming transcoder.                                 *)
(***************************************************************************)
RECURSIVE concatAll(_)
concatAll(seqs) == IF seqs = <<>> THEN <<>> ELSE Head(seqs) \o concatAll(Tail(seqs))

\* The frames forwarded from a parsed frame with a first-choice delta.
isDeltaFrame(w) == w.kind = "frame" /\ w.src.hasDelta
\* The content a forwarded frame emits: the text of its content field.
emitted(w) == IF w.data.c.t = "str" THEN w.data.c.s ELSE <<>>

hasR(w) == Truthy(w.src.r)
hasC(w) == Truthy(w.src.c)

FourCase(w) ==
  /\ (hasR(w) /\ ~hasC(w) /\ ~w.before) =>
        emitted(w) = <<ThinkOpen>> \o w.src.r.s /\ w.after
  /\ (hasR(w) /\ ~hasC(w) /\ w.before) =>
        emitted(w) = w.src.r.s /\ w.after
  /\ (~hasR(w) /\ hasC(w) /\ w.before) =>
        emitted(w) = <<ThinkClose>> \o w.src.c.s /\ ~w.after
  /\ (~hasR(w) /\ hasC(w) /\ ~w.before) =>
        emitted(w) = w.src.c.s /\ ~w.after
  /\ (hasR(w) /\ hasC(w)) =>
        /\ emitted(w) = (IF w.before THEN <<>> ELSE <<ThinkOpen>>) \o w.src.r.s
                          \o <<ThinkClose>> \o w.src.c.s
        /\ ~w.after
  /\ (~hasR(w) /\ ~hasC(w)) => emitted(w) = <<>> /\ w.after = w.before

\* The span flag is one flag for the whole stream: every line starts from
\* the value the line before it left.
SpanThreaded ==
  /\ \A i \in 1..Len(out) :
       out[i].before = (IF i = 1 THEN FALSE ELSE out[i - 1].after)
  /\ reasoningStarted = (IF out = <<>> THEN FALSE ELSE out[Len(out)].after)

\* The forwarded frames that carry a fragment.
fragFrames == SelectSeq(out, LAMBDA w : isDeltaFrame(w) /\ (hasR(w) \/ hasC(w)))

\* The frames are n >= 1 reasoning fragments followed by m >= 1 answer fragments.
ReasoningThenAnswer(fs, n) ==
  /\ n >= 1 /\ n < Len(fs)
  /\ \A i \in 1..n : hasR(fs[i]) /\ ~hasC(fs[i])
  /\ \A i \in (n + 1)..Len(fs) : hasC(fs[i]) /\ ~hasR(fs[i])

\* C1: with reasoning display on, every forwarded delta frame emits the
\* content the four-case span table gives for its fragments and the span
\* flag left by the line before it, and reasoning fragments r1..rn followed
\* by answer fragments c1..cm concatenate to '<think>\n' r1..rn
\* '</think>\n\n' c1..cm.
SpanTableHolds ==
  /\ SpanThreaded
  /\ \A i \in 1..Len(out) : isDeltaFrame(out[i]) => FourCase(out[i])
  /\ \A n \in 1..Len(fragFrames) :
       ReasoningThenAnswer(fragFrames, n) =>
         concatAll([i \in 1..Len(fragFrames) |-> emitted(fragFrames[i])])
           = <<ThinkOpen>>
             \o concatAll([i \in 1..n |-> fragFrames[i].src.r.s])
             \o <<ThinkClose>>
             \o concatAll([i \in 1..(Len(fragFrames) - n) |-> fragFrames[n + i].src.c.s])

\* Reasoning A, reasoning B, then answer C were forwarded as '<think>\nAB</think>\n\nC'.
SpanTableWitness ==
  /\ Len(fragFrames) = 3
  /\ fragFrames[1].src.r.s = <<"A">>
  /\ fragFrames[2].src.r.s = <<"B">>
  /\ fragFrames[3].src.c.s = <<"C">>
  /\ ReasoningThenAnswer(fragFrames, 2)
  /\ concatAll([i \in 1..3 |-> emitted(fragFrames[i])])
       = <<ThinkOpen, "A", "B", ThinkClose, "C">>

\* C2: every forwarded delta frame has a string content field and no
\* reasoning_content field.
ContentAlwaysString ==
  \A i \in 1..Len(out) :
    isDeltaFrame(out[i]) => out[i].data.c.t = "str" /\ out[i].data.r.t = "absent"

\* The payload of a line written back raw: the text between 'data: ' and the newline.
rawPayload(w) == SubSeq(w.text, 2, Len(w.text) - 1)

\* C3: a 'data: ' line is written back unchanged only when its payload is
\* the sentinel (or fails to parse); a JSON delta frame is always transcoded.
OnlySentinelForwardedRaw ==
  \A i \in 1..Len(out) :
    out[i].kind = "raw" =>
      \/ rawPayload(out[i]) = <<DONE>>
      \/ ~(JSONparse(rawPayload(out[i])).ok /\ JSONparse(rawPayload(out[i])).hasDelta)

\* The complete 'data: ' lines of the bytes received so far.
receivedLines == LET pieces == split(received) IN SubSeq(pieces, 1, Len(pieces) - 1)
receivedDataLines == SelectSeq(receivedLines, startsWithData)
malformed(byteLine) == ~JSONparse(chunkToString(Tail(byteLine))).ok

\* Every complete 'data: ' line received was forwarded, one write each, in order.
EveryDataLineForwarded == Len(out) = Len(receivedDataLines)

\* C4: a 'data: ' line whose payload is not valid JSON is written back with
\* exactly its original bytes and leaves the span flag as it was, and the
\* lines after it are still forwarded in order.
MalformedForwardedVerbatim ==
  /\ EveryDataLineForwarded
  /\ \A i \in 1..Len(out) :
       (i <= Len(receivedDataLines) /\ malformed(receivedDataLines[i])) =>
         /\ out[i].kind = "raw"
         /\ writeBytes(out[i].text) = receivedDataLines[i] \o <<NL>>
         /\ out[i].after = out[i].before

\* The transcoder run on all received bytes as one chunk.
oneChunk == onData(received, <<>>, FALSE)

\* C5: the frames forwarded (keepalives aside) are those of the received
\* bytes taken as a single chunk, however the bytes were cut into chunks.
ChunkingIndependent == out = oneChunk.writes

(***************************************************************************)
(* Properties of the request handler.                                      *)
(***************************************************************************)
handled(r) == req[r].pc # "idle"
aliased(r) == req[r].body.model \in DOMAIN MODEL_MAPPING

\* C6: a request whose model is a key of the alias table sends no probe and
\* sends the primary request with exactly the mapped model, and no step of
\* its handling changes the validated-model cache.
AliasedModelIsMapped ==
  /\ [](\A r \in Conns :
          (handled(r) /\ aliased(r)) =>
             /\ req[r].probes = 0
             /\ req[r].pc # "probing"
             /\ ~req[r].fallback
             /\ req[r].body.messages.t = "array" => req[r].primarySent
             /\ req[r].primarySent =>
                  req[r].upstream.model = MODEL_MAPPING[req[r].body.model])
  /\ [][\A r \in Conns :
          (req'[r] # req[r] /\ req'[r].body.model \in DOMAIN MODEL_MAPPING) =>
             validatedModels' = validatedModels]_vars

\* 'gpt-4-turbo' went upstream as moonshotai/kimi-k2.5-instruct without a probe.
AliasedModelWitness ==
  \E r \in Conns :
    /\ req[r].pc = "primary"
    /\ req[r].body.model = <<"gpt-4", "-turbo">>
    /\ req[r].upstream.model = <<"moonshotai/", "kimi-k2.5-instruct">>
    /\ req[r].probes = 0

\* C7: a request whose model is not a key of the alias table and not in the
\* cache sends a probe, and the size-based selection runs only after the
\* probe has settled; a request that finds its model in the cache sends no
\* probe and uses the name unchanged.
ProbeBeforeFallback ==
  \A r \in Conns :
    (handled(r) /\ ~aliased(r)) =>
       /\ ~req[r].cachedAtStart =>
            req[r].probes = 1 /\ (req[r].fallback => req[r].pc # "probing")
       /\ req[r].cachedAtStart =>
            /\ req[r].probes = 0
            /\ req[r].primarySent => req[r].upstream.model = req[r].body.model

\* C8: whatever the model string and the probe outcome, resolution ends with
\* a model string, one of the three defaults when the selection ran, and the
\* primary request is sent.
ResolutionNeverFails ==
  \A r \in Conns :
    (req[r].pc \notin {"idle", "probing"} /\ req[r].body.messages.t = "array") =>
       /\ req[r].nimModel.t = "str"
       /\ req[r].fallback => req[r].nimModel.s \in {Model405b, Model70b, Model8b}
       /\ req[r].primarySent

\* C9: the temperature sent upstream is the caller's when the caller gave
\* one, 0 included, and the default otherwise.
TemperaturePreserved ==
  \A r \in Conns :
    req[r].primarySent =>
      req[r].upstream.temperature =
        (IF req[r].body.temperature.t = "number" THEN req[r].body.temperature.n
         ELSE DefaultTemperature)

\* C10: without a credential no probe and no primary request is sent, and
\* the answer is a 500 configuration error.
MissingKeyIsConfigurationError ==
  ~NIM_API_KEY =>
    \A r \in Conns :
      /\ req[r].probes = 0
      /\ ~req[r].primarySent
      /\ req[r].pc = "done" =>
           req[r].response.status = 500 /\ req[r].response.type = "configuration_error"

\* A request whose messages field is missing or is an empty array.
noMessages(r) ==
  req[r].body.messages.t # "array" \/ req[r].body.messages.items = <<>>

\* C11: a request whose messages field is missing or is an empty array is
\* answered with status 400 in the error envelope, and no primary upstream
\* request is sent for it.
EmptyMessagesRejected ==
  \A r \in Conns :
    (handled(r) /\ noMessages(r)) =>
       /\ ~req[r].primarySent
       /\ req[r].pc = "done" =>
            req[r].response.status = 400 /\ req[r].response.code = 400

\* The primary call of request r failed.
primaryFailed(r) == req[r].outcome.kind = "error"

\* C12: when the primary upstream call fails the caller receives the error
\* envelope; its status and code are the upstream status when there is one
\* and 500 otherwise, and its message is the upstream's error detail when
\* the upstream sent one, else the error's own message, else the generic
\* fallback string.
PrimaryFailureEnvelope ==
  \A r \in Conns :
    primaryFailed(r) =>
      /\ req[r].pc = "done"
      /\ req[r].response.status =
           (IF req[r].outcome.hasResponse THEN req[r].outcome.status ELSE 500)
      /\ req[r].response.code = req[r].response.status
      /\ req[r].response.message =
           (IF req[r].outcome.detail # "" THEN req[r].outcome.detail
            ELSE IF req[r].outcome.message # "" THEN req[r].outcome.message
            ELSE "Internal server error")

\* The primary call of request r was answered with a non-streamed response.
answeredJson(r) == req[r].outcome.kind = "ok" /\ req[r].outcome.data = "json"

\* The content the claim gives an output choice.
claimedContent(choice) ==
  (IF choice.hasMessage /\ choice.reasoning_content.t = "str"
      /\ choice.reasoning_content.s # <<>>
   THEN <<ThinkOpen>> \o choice.reasoning_content.s \o <<NL, ThinkClose>>
   ELSE <<>>)
  \o (IF choice.hasMessage /\ choice.content.t = "str" THEN choice.content.s ELSE <<>>)

\* C13: a non-streamed response has one output choice per upstream choice,
\* in order, with the choice's index and finish_reason unchanged and the
\* content '<think>\n' reasoning '\n</think>\n\n' answer when the choice has
\* non-empty reasoning and the answer alone (empty if absent) otherwise,
\* also for a choice without a message.
ChoicesMappedOneToOne ==
  \A r \in Conns :
    answeredJson(r) =>
      /\ req[r].pc = "done"
      /\ req[r].response.status = 200
      /\ Len(req[r].response.choices) = Len(req[r].outcome.choices)
      /\ \A i \in 1..Len(req[r].outcome.choices) :
           i <= Len(req[r].response.choices) =>
             /\ req[r].response.choices[i].index = req[r].outcome.choices[i].index
             /\ req[r].response.choices[i].finish_reason
                  = req[r].outcome.choices[i].finish_reason
             /\ req[r].response.choices[i].content
                  = claimedContent(req[r].outcome.choices[i])

(***************************************************************************)
(* Termination of a streamed response.                                     *)
(***************************************************************************)
\* Nothing is written in this step.
NoWrite == out' = out /\ keepalives' = keepalives

\* C14: once the upstream's stream has ended or failed the response is
\* eventually ended; the step that ends it after a transport error writes
\* nothing (no error frame), and nothing is written to a response that has
\* been ended.
StreamTerminates ==
  /\ (upstreamState # "open") ~> resEnded
  /\ [][(upstreamState = "failed" /\ ~resEnded /\ resEnded') => NoWrite]_vars
  /\ [][resEnded => (resEnded' /\ NoWrite)]_vars

\* The response was ended after a transport error that cut off bytes the
\* upstream had sent, frames having been forwarded before.
StreamTerminatesWitness ==
  /\ resEnded
  /\ upstreamState = "failed"
  /\ wire # <<>>
  /\ out # <<>>

\* C15: once the caller has disconnected, the upstream connection of the
\* request is torn down: no further chunk is received and processed.
UpstreamTornDown ==
  [][callerGone => (received' = received /\ NoWrite)]_vars

(***************************************************************************)
(* A build that hides reasoning.                                           *)
(***************************************************************************)
\* The upstream frame a write forwards: the object parsed from the line.
forwardedFrame(w) == IF w.kind = "frame" THEN w.src ELSE JSONparse(rawPayload(w))

hasMarker(text) == \E i \in 1..Len(text) : text[i] \in {ThinkOpen, ThinkClose}

\* The frame went through the disabled branch: content is the answer
\* fragment or '', reasoning_content is gone, the span flag is untouched.
AnswerOnly(w) ==
  /\ w.kind = "frame"
  /\ w.data.c = (IF Truthy(w.src.c) THEN w.src.c ELSE Str(<<>>))
  /\ w.data.r.t = "absent"
  /\ ~w.before /\ ~w.after
  /\ ~hasMarker(emitted(w))

textsOf(parts) ==
  LET textParts == SelectSeq(parts, LAMBDA item : item.type = "text")
  IN [i \in 1..Len(textParts) |-> textParts[i].text]

\* The content the claim gives a message sent to a model that is, or is
\* not, a member of the allow-list.
normalized(content, member) ==
  IF member /\ content.t = "string" THEN ArrayContent(<<TextPart(content.s)>>)
  ELSE IF ~member /\ content.t = "array" THEN StringContent(join(textsOf(content.parts)))
  ELSE content

\* C17: the messages sent upstream are the caller's, as many, in order and
\* with their roles; plain text is turned into one text part exactly when
\* the resolved model is a member of ARRAY_CONTENT_MODELS, structured
\* content is flattened to the newline-joined texts of its text parts
\* exactly when it is not, and flattening a single text part and turning it
\* back gives the original content.
NormalizedByMembership ==
  \A r \in Conns :
    req[r].primarySent =>
      /\ Len(req[r].upstream.messages) = Len(req[r].body.messages.items)
      /\ \A i \in 1..Len(req[r].body.messages.items) :
           /\ req[r].upstream.messages[i].role = req[r].body.messages.items[i].role
           /\ req[r].upstream.messages[i].content =
                normalized(req[r].body.messages.items[i].content,
                           req[r].upstream.model \in ARRAY_CONTENT_MODELS)
           /\ (req[r].body.messages.items[i].content.t = "array"
               /\ Len(req[r].body.messages.items[i].content.parts) = 1
               /\ req[r].body.messages.items[i].content.parts[1].type = "text") =>
                 transformMessage(transformMessage(req[r].body.messages.items[i], FALSE),
                                  TRUE) = req[r].body.messages.items[i]

(***************************************************************************)
(* The validated-model cache under concurrent requests.                    *)
(***************************************************************************)
\* The probe of request r settles in this step.
probeSettles(r) == req[r].pc = "probing" /\ req'[r].pc # "probing"

\* C18: under any interleaving of requests the cache only grows; a name
\* enters it only in the step in which a probe for that name, sent for a
\* caller's request, is answered 2xx, so no member is a key of the alias
\* table; a probe that is answered 4xx or 5xx, times out or fails adds
\* nothing.
CacheGrowsByValidatedProbes ==
  /\ [](\A m \in validatedModels : m \notin DOMAIN MODEL_MAPPING)
  /\ [][validatedModels \subseteq validatedModels']_vars
  /\ [][\A m \in validatedModels' \ validatedModels :
          \E r \in Conns :
            probeSettles(r) /\ req[r].body.model = m /\ req'[r].probe2xx]_vars
  /\ [][\A r \in Conns :
          (probeSettles(r) /\ ~req'[r].probe2xx) => validatedModels' = validatedModels]_vars

\* Two requests were probed: the name whose probe was answered 2xx is in
\* the cache, the name whose probe failed is not.
CacheGrowsWitness ==
  \E r, q \in Conns :
    /\ req[r].probes = 1 /\ req[r].probe2xx
    /\ req[r].body.model \in validatedModels
    /\ req[q].probes = 1 /\ ~req[q].probe2xx /\ req[q].pc # "probing"
    /\ req[q].body.model \notin validatedModels

(***************************************************************************)
(* Streams in progress at the same time.                                   *)
(***************************************************************************)
RECURSIVE alone(_)
\* A stream that receives the chunks with no other stream in progress: its
\* writes, buffer and span flag after the last chunk.
alone(chunks) ==
  IF chunks = <<>> THEN [writes |-> <<>>, buffer |-> <<>>, started |-> FALSE]
  ELSE LET before == alone(SubSeq(chunks, 1, Len(chunks) - 1))
           h == onData(chunks[Len(chunks)], before.buffer, before.started)
       IN [writes |-> before.writes \o h.writes, buffer |-> h.buffer, started |-> h.started]

\* C19: however the chunk events of two streamed requests interleave, each
\* stream has written the frames, and holds the buffer and span flag, that
\* its own chunks give on a stream running alone; a new stream starts with
\* an empty buffer and the span closed, whatever the stream before it on
\* the connection left.
StreamsIndependent ==
  \A c \in Conns :
    /\ streams[c].out = alone(streams[c].chunks).writes
    /\ streams[c].buffer = alone(streams[c].chunks).buffer
    /\ streams[c].reasoningStarted = alone(streams[c].chunks).started
    /\ streams[c].chunks = <<>> => streams[c].buffer = <<>> /\ ~streams[c].reasoningStarted

\* Three streams were begun on the two connections: one has its span open
\* and half a line buffered while the other has forwarded an answer
\* without a closing marker.
StreamsIndependentWitness ==
  \E c, d \in Conns :
    /\ c # d
    /\ streams[c].open /\ streams[c].reasoningStarted /\ streams[c].buffer # <<>>
    /\ streams[d].open /\ arrived = MaxStreams
    /\ Len(streams[d].out) = 1 /\ emitted(streams[d].out[1]) = <<"C">>

(***************************************************************************)
(* The markers of one stream.                                              *)
(***************************************************************************)
isMarker(token) == token \in {ThinkOpen, ThinkClose}

\* The markers written so far, in order.
markers ==
  SelectSeq(concatAll([i \in 1..Len(out) |-> emitted(out[i])]), isMarker)

\* C20: the '<think>\n' and '</think>\n\n' markers written on a stream
\* alternate, starting with '<think>\n'; one more opener than closers has
\* been written exactly when the span flag is open, and a closer is written
\* only in a frame that carries an answer fragment.
MarkersAlternate ==
  /\ \A i \in 1..Len(markers) :
       markers[i] = (IF i % 2 = 1 THEN ThinkOpen ELSE ThinkClose)
  /\ reasoningStarted <=> Len(markers) % 2 = 1
  /\ \A i \in 1..Len(out) :
       (\E j \in 1..Len(emitted(out[i])) : emitted(out[i])[j] = ThinkClose) => hasC(out[i])

\* A stream that opened, closed and reopened the span ended with the span
\* open and no closer after the last opener.
MarkersAlternateWitness ==
  /\ markers = <<ThinkOpen, ThinkClose, ThinkOpen>>
  /\ reasoningStarted
  /\ resEnded

====
